---- MODULE Spec2Model ----
(***************************************************************************)
(* Intell-Weave backend: the personalized-feed recommender                 *)
(* (app/services/recommender.py) over the article / article_nlp /          *)
(* user_events tables written by the routers.                              *)
(*                                                                         *)
(* Numbers.  Every score of the program is a float in units of 1.0; here   *)
(* it is the integer score * One (One = 10000), which is exact for every   *)
(* value the model produces (weights are multiples of 0.5, freshness of    *)
(* 0.1, popularity of 1/50, credibility of 0.0001).  Event weights are in  *)
(* tenths (click = 10).  diversity_factor is in tenths (0.3 = 3).  Ages    *)
(* are whole hours before "now"; "now" does not advance inside a run.      *)
(***************************************************************************)
EXTENDS Integers, Sequences, FiniteSets, TLC

VARIABLES
    articles,       \* table articles + article_nlp: id -> row, or NoRow
    user_events,    \* table user_events: the log, oldest insert first
    user_profiles,  \* AdvancedRecommender.user_profiles: user -> profile or NoProfile
    feed,           \* the last get_personalized_feed call: inputs, stages, outcome
    rk,             \* a run of _apply_diversity_reranking: its locals and position
    th,             \* threads inside _get_user_profile on the shared instance
    builds,         \* per user: how many times a profile was constructed
    fs,             \* the last two calls of _freshness_score: ages and scores
    bookmarks,      \* table bookmarks: the (user, article) pairs that have a row
    rl,             \* RateLimiter over Redis: the clock, the sorted set, the grants
    chat            \* the chat endpoints: the messages added, the last response

vars == <<articles, user_events, user_profiles, feed, rk, th, builds, fs,
          bookmarks, rl, chat>>

-----------------------------------------------------------------------------
(* Bounds of the model *)

MaxArticles == 2
MaxEvents == 1
MaxLimit == 2
MaxCands == 3
MaxThreads == 2
MaxAgeH == 80
MaxPoolArticles == 4
MaxHistory == 2
MaxRate == 2
MaxWindow == 2
MaxTime == 3
MaxCalls == 4
MaxAsks == 2
MaxChatTime == 1

(* Program constants *)

One == 10000
Null == -1

NEUTRAL == 5000
FALLBACK_SCORE == 6000
INGEST_CREDIBILITY == 700000
CANDIDATE_WINDOW_H == 336
FALLBACK_WINDOW_H == 168
PROFILE_WINDOW_H == 2160
POPULARITY_WINDOW_H == 24
POPULARITY_DENOM == 50
PROFILE_EVENT_CAP == 500
CANDIDATE_FACTOR == 3

Users == {"u1", "u2"}
Topics == {"t1", "t2"}
EntityNames == {"e1"}
ArticleIds == 1..MaxArticles

-----------------------------------------------------------------------------
(* Sequence helpers *)

Range(s) == {s[i] : i \in DOMAIN s}

RemoveAt(s, i) == [j \in 1..(Len(s) - 1) |-> IF j < i THEN s[j] ELSE s[j + 1]]

\* list.remove(x): drops the first element equal to x
ListRemove(s, x) ==
    IF \E i \in DOMAIN s : s[i] = x
    THEN RemoveAt(s, CHOOSE i \in DOMAIN s : s[i] = x /\ \A j \in 1..(i - 1) : s[j] # x)
    ELSE s

Take(s, n) == IF n >= Len(s) THEN s ELSE IF n <= 0 THEN <<>> ELSE SubSeq(s, 1, n)

Min(a, b) == IF a <= b THEN a ELSE b
Max(a, b) == IF a >= b THEN a ELSE b

RECURSIVE InsertByScore(_, _)
\* x goes after every element whose score is >= x's: equal scores keep their order
InsertByScore(s, x) ==
    IF s = <<>> THEN <<x>>
    ELSE IF s[1].recommendation_score >= x.recommendation_score
         THEN <<s[1]>> \o InsertByScore(Tail(s), x)
         ELSE <<x>> \o s

RECURSIVE SortByScore(_)
\* articles.sort(key=lambda x: x['recommendation_score'], reverse=True): stable
SortByScore(s) ==
    IF s = <<>> THEN <<>>
    ELSE InsertByScore(SortByScore(SubSeq(s, 1, Len(s) - 1)), s[Len(s)])

-----------------------------------------------------------------------------
(* _calculate_article_similarity: Jaccard of the topic sets, as the integer
   similarity * SimScale (exact while a union has at most 3 topics) *)

SimScale == 2 * 3

\* the overlap coefficient: the intersection over the smaller set
CalculateArticleSimilarityOverlap(a1, a2) ==
    IF a1.topics = {} \/ a2.topics = {} THEN 0
    ELSE (SimScale * Cardinality(a1.topics \cap a2.topics))
             \div Min(Cardinality(a1.topics), Cardinality(a2.topics))

CalculateArticleSimilarity(a1, a2) ==
    IF a1.topics = {} \/ a2.topics = {} THEN 0
    ELSE (SimScale * Cardinality(a1.topics \cap a2.topics))
             \div Cardinality(a1.topics \cup a2.topics)

-----------------------------------------------------------------------------
(* _apply_diversity_reranking *)

\* sum of the similarities of article to the selected ones (diversity_penalty
\* before the division by len(selected))
RECURSIVE PenaltySum(_, _)
PenaltySum(article, selected) ==
    IF selected = <<>> THEN 0
    ELSE CalculateArticleSimilarity(article, selected[1])
             + PenaltySum(article, Tail(selected))

\* the relevance term plus the penalty term, where the code subtracts it
MmrScorePlusPenalty(article, selected, lam) ==
    (10 - lam) * article.recommendation_score * SimScale * Len(selected)
        + lam * One * PenaltySum(article, selected)

\* mmr_score * (10 * SimScale * len(selected)) in units of 1/One
MmrScore(article, selected, lam) ==
    (10 - lam) * article.recommendation_score * SimScale * Len(selected)
        - lam * One * PenaltySum(article, selected)

\* best_mmr_score = -1 in the same unit
MmrFloor(selected) == 0 - (10 * SimScale * Len(selected) * One)

\* the inner for loop: index in remaining of best_article, 0 when best_article
\* stays None (no mmr_score > -1); `>` keeps the first of equal maxima
\* the inner loop comparing with >=: the last of equal maxima wins
RECURSIVE BestFromLastOfEqual(_, _, _, _, _, _)
BestFromLastOfEqual(remaining, selected, lam, i, bestIdx, bestScore) ==
    IF i > Len(remaining) THEN bestIdx
    ELSE LET m == MmrScore(remaining[i], selected, lam) IN
         IF m >= bestScore
         THEN BestFromLastOfEqual(remaining, selected, lam, i + 1, i, m)
         ELSE BestFromLastOfEqual(remaining, selected, lam, i + 1, bestIdx, bestScore)

RECURSIVE BestFrom(_, _, _, _, _, _)
BestFrom(remaining, selected, lam, i, bestIdx, bestScore) ==
    IF i > Len(remaining) THEN bestIdx
    ELSE LET m == MmrScore(remaining[i], selected, lam) IN
         IF m > bestScore
         THEN BestFrom(remaining, selected, lam, i + 1, i, m)
         ELSE BestFrom(remaining, selected, lam, i + 1, bestIdx, bestScore)

BestIndex(remaining, selected, lam) ==
    BestFrom(remaining, selected, lam, 1, 0, MmrFloor(selected))

\* remaining after `remaining.remove(best_article)`
RemoveSelected(remaining, best) == ListRemove(remaining, best)

\* the first pick reading remaining[0] where the code pops it
FirstPickNoPop(sorted) ==
    IF sorted = <<>> THEN [selected |-> <<>>, remaining |-> <<>>]
    ELSE [selected |-> <<sorted[1]>>, remaining |-> sorted]

\* selected / remaining after lines 305-310 (the unconditional first pick)
FirstPick(sorted) ==
    IF sorted = <<>> THEN [selected |-> <<>>, remaining |-> <<>>]
    ELSE [selected |-> <<sorted[1]>>, remaining |-> Tail(sorted)]

\* the while loop run to its end; hangs |-> TRUE when an iteration changes
\* nothing while the loop condition still holds (the loop never exits)
RECURSIVE MmrLoop(_, _, _, _)
MmrLoop(selected, remaining, lam, limit) ==
    IF Len(selected) < limit /\ remaining # <<>>
    THEN LET b == BestIndex(remaining, selected, lam) IN
         IF b = 0 THEN [hangs |-> TRUE, val |-> selected]
         ELSE MmrLoop(Append(selected, remaining[b]),
                      RemoveSelected(remaining, remaining[b]), lam, limit)
    ELSE [hangs |-> FALSE, val |-> selected]

ApplyDiversityReranking(arts, lam, limit) ==
    IF arts = <<>> THEN [hangs |-> FALSE, val |-> <<>>]
    ELSE LET p == FirstPick(SortByScore(arts)) IN
         MmrLoop(p.selected, p.remaining, lam, limit)

-----------------------------------------------------------------------------
(* The documents of the world: what nlp.analyze and the page's meta tags give
   for document i (its keyphrases, entities, sentiment, published date).  The
   same document can reach the tables by URL ingestion, by the crawler, or by
   create_article / ingest_file.  Published ages are pairwise distinct, so
   ORDER BY published_at is a total order. *)

DocClass(i) == (i - 1) % 3

DocTopics(i) ==
    CASE DocClass(i) = 0 -> {"t1"}
      [] DocClass(i) = 1 -> {"t1"}
      [] OTHER -> {"t1", "t2"}

DocEntities(i) == IF DocClass(i) = 1 THEN {} ELSE {"e1"}

DocSentiment(i) ==
    CASE DocClass(i) = 0 -> "positive"
      [] DocClass(i) = 1 -> "neutral"
      [] OTHER -> "negative"

\* hours since the page's published date: 1 h, 200 h (inside 14 days, not
\* inside 7), 100 h
DocPublishedAge(i) ==
    (CASE DocClass(i) = 0 -> 1
       [] DocClass(i) = 1 -> 200
       [] OTHER -> 100) + ((i - 1) \div 3)

\* distance of the document's stored embedding (nlp.embed of its text) from a
\* query vector: the oldest document is the nearest, distances pairwise distinct
DocDistance(i) == IF DocClass(i) = 1 THEN (i - 1) \div 3 ELSE 10 + i

NoRow == [exists |-> FALSE]

\* a row of articles LEFT JOIN article_nlp; credibility_score, topics,
\* key_entities and sentiment are NULL when the article has no article_nlp row
Row(i, published, nlp, cred) ==
    [exists |-> TRUE, id |-> i, published_age |-> published, has_nlp |-> nlp,
     credibility_score |-> IF nlp THEN cred ELSE Null,
     topics |-> IF nlp THEN DocTopics(i) ELSE {},
     key_entities |-> IF nlp THEN DocEntities(i) ELSE {},
     sentiment |-> IF nlp THEN DocSentiment(i) ELSE "NULL"]

\* what calculate_credibility can return: a weighted mean of factors in [0,1]
AssessedCredibility == {3000}

-----------------------------------------------------------------------------
(* user_events *)

\* EventIn.event_type: the pattern the ingestion endpoint validates
EventInValid(event_type) ==
    event_type \in {"impression", "click", "dwell", "save", "like", "share"}

\* the weight table without its default: an unlisted event type weighs nothing
GetEventWeightNoDefault(event_type) ==
    CASE event_type = "click" -> 10
      [] event_type = "read" -> 20
      [] event_type = "bookmark" -> 30
      [] event_type = "share" -> 40
      [] event_type = "like" -> 25
      [] event_type = "comment" -> 35
      [] event_type = "dwell_time" -> 15
      [] OTHER -> 0

\* _get_event_weight, in tenths
GetEventWeight(event_type) ==
    CASE event_type = "click" -> 10
      [] event_type = "read" -> 20
      [] event_type = "bookmark" -> 30
      [] event_type = "share" -> 40
      [] event_type = "like" -> 25
      [] event_type = "comment" -> 35
      [] event_type = "dwell_time" -> 15
      [] OTHER -> 10

Event(u, a, t, age) == [user_id |-> u, article_id |-> a, event_type |-> t, age |-> age]

-----------------------------------------------------------------------------
(* _get_user_profile *)

NoProfile == [cached |-> FALSE]

\* the rows of the profile query: the user's events younger than 90 days whose
\* article exists (inner JOIN), newest insert first, at most 500
RECURSIVE ProfileRowsOf(_, _, _)
ProfileRowsOf(u, evs, arts) ==
    IF evs = <<>> THEN <<>>
    ELSE LET e == evs[Len(evs)]
             rest == ProfileRowsOf(u, SubSeq(evs, 1, Len(evs) - 1), arts)
         IN IF e.user_id = u /\ e.age < PROFILE_WINDOW_H
               /\ e.article_id \in DOMAIN arts /\ arts[e.article_id].exists
            THEN <<[event_type |-> e.event_type, art |-> arts[e.article_id]]>> \o rest
            ELSE rest

ProfileRows(u, evs, arts) == Take(ProfileRowsOf(u, evs, arts), PROFILE_EVENT_CAP)

\* sum of the event weights of the rows whose article carries key in field
RECURSIVE WeightSum(_, _, _)
WeightSum(rows, field, key) ==
    IF rows = <<>> THEN 0
    ELSE (IF key \in (CASE field = "topics" -> rows[1].art.topics
                        [] field = "entities" -> rows[1].art.key_entities
                        [] OTHER -> IF rows[1].art.sentiment = "NULL" THEN {}
                                    ELSE {rows[1].art.sentiment})
          THEN GetEventWeight(rows[1].event_type) ELSE 0)
         + WeightSum(Tail(rows), field, key)

KeysOf(rows, field) ==
    UNION {CASE field = "topics" -> rows[i].art.topics
             [] field = "entities" -> rows[i].art.key_entities
             [] OTHER -> IF rows[i].art.sentiment = "NULL" THEN {}
                         ELSE {rows[i].art.sentiment} : i \in DOMAIN rows}

ScoreMap(rows, field) == [k \in KeysOf(rows, field) |-> WeightSum(rows, field, k)]

\* lines 86-123; total_interactions is len(list(result)) of the result the for
\* loop has already consumed
BuildProfile(u, rows) ==
    [cached |-> TRUE, user_id |-> u,
     topic_preferences |-> ScoreMap(rows, "topics"),
     entity_interests |-> ScoreMap(rows, "entities"),
     sentiment_preference |-> ScoreMap(rows, "sentiment"),
     total_interactions |-> 0]

\* line 130: the profile returned when the query raises (two maps only)
ErrorProfile(u) ==
    [cached |-> FALSE, user_id |-> u, topic_preferences |-> <<>>,
     entity_interests |-> <<>>]

\* the method storing an empty profile for the user when the query raises
GetUserProfileCachingError(u, cache, evs, arts, fails) ==
    IF cache[u].cached THEN [profile |-> cache[u], cache |-> cache]
    ELSE IF fails THEN [profile |-> ErrorProfile(u),
                        cache |-> [cache EXCEPT ![u] = BuildProfile(u, <<>>)]]
    ELSE LET p == BuildProfile(u, ProfileRows(u, evs, arts)) IN
         [profile |-> p, cache |-> [cache EXCEPT ![u] = p]]

\* the whole method: the profile returned and the cache afterwards
GetUserProfile(u, cache, evs, arts, fails) ==
    IF cache[u].cached THEN [profile |-> cache[u], cache |-> cache]
    ELSE IF fails THEN [profile |-> ErrorProfile(u), cache |-> cache]
    ELSE LET p == BuildProfile(u, ProfileRows(u, evs, arts)) IN
         [profile |-> p, cache |-> [cache EXCEPT ![u] = p]]

-----------------------------------------------------------------------------
(* The two article queries *)

ExistingRows(arts) == {arts[i] : i \in {j \in DOMAIN arts : arts[j].exists}}

\* ORDER BY: "recent" is published_at DESC; "credible" is credibility_score
\* DESC NULLS LAST, published_at DESC (Null is below every stored score)
Precedes(x, y, order) ==
    IF order = "credible" /\ x.credibility_score # y.credibility_score
    THEN x.credibility_score > y.credibility_score
    ELSE x.published_age < y.published_age

RECURSIVE OrderRows(_, _)
OrderRows(rows, order) ==
    IF rows = {} THEN <<>>
    ELSE LET first == CHOOSE x \in rows : \A y \in rows \ {x} : Precedes(x, y, order)
         IN <<first>> \o OrderRows(rows \ {first}, order)

\* the subquery restricted to the profile's 90-day window
ConsumedIdsWindowed(u, evs) ==
    {evs[i].article_id : i \in {j \in DOMAIN evs :
        /\ evs[j].user_id = u /\ evs[j].event_type \in {"read", "bookmark"}
        /\ evs[j].age < PROFILE_WINDOW_H}}

\* the NOT IN subquery: article ids of the user's read / bookmark events
ConsumedIds(u, evs) ==
    {evs[i].article_id : i \in {j \in DOMAIN evs :
        evs[j].user_id = u /\ evs[j].event_type \in {"read", "bookmark"}}}

\* a.id NOT IN (subquery): not true for any row once the subquery holds a NULL
NotInConsumed(id, consumed) == id \notin consumed /\ Null \notin consumed

\* WHERE a.published_at > :cutoff_date, NULL published_at never passes
PublishedWithin(row, window) ==
    row.published_age # Null /\ row.published_age < window

\* the candidate query with the fallback's 7-day cutoff
CandidateRowsShortWindow(u, evs, arts) ==
    {r \in {arts[i] : i \in {j \in DOMAIN arts : arts[j].exists}} :
        /\ r.published_age # Null /\ r.published_age < FALLBACK_WINDOW_H
        /\ r.id \notin {evs[i].article_id : i \in {j \in DOMAIN evs :
               evs[j].user_id = u /\ evs[j].event_type \in {"read", "bookmark"}}}}

CandidateRows(u, evs, arts) ==
    {r \in ExistingRows(arts) :
        PublishedWithin(r, CANDIDATE_WINDOW_H) /\ NotInConsumed(r.id, ConsumedIds(u, evs))}

\* float(row.credibility_score or 0.5): NULL and 0.0 both give 0.5
CredibilityOrDefault(cred) == IF cred = Null \/ cred = 0 THEN NEUTRAL ELSE cred

CandidateOf(row) ==
    [id |-> row.id, published_age |-> row.published_age,
     sentiment |-> row.sentiment,
     credibility_score |-> CredibilityOrDefault(row.credibility_score),
     topics |-> row.topics, entities |-> row.key_entities]

RECURSIVE MapCandidates(_)
MapCandidates(rows) ==
    IF rows = <<>> THEN <<>> ELSE <<CandidateOf(rows[1])>> \o MapCandidates(Tail(rows))

\* the retriever without the LIMIT of its query
GetCandidateArticlesNoLimit(u, limit, evs, arts, fails) ==
    IF fails THEN <<>>
    ELSE MapCandidates(OrderRows(CandidateRows(u, evs, arts), "recent"))

\* _get_candidate_articles: [] when the query or the row conversion raises
GetCandidateArticles(u, limit, evs, arts, fails) ==
    IF fails THEN <<>>
    ELSE MapCandidates(Take(OrderRows(CandidateRows(u, evs, arts), "recent"), limit))

\* the fallback entry scored with the neutral 0.5
FallbackOfNeutral(row) ==
    [id |-> row.id, published_age |-> row.published_age,
     sentiment |-> row.sentiment,
     credibility_score |-> IF row.credibility_score = Null \/ row.credibility_score = 0
                           THEN NEUTRAL ELSE row.credibility_score,
     recommendation_score |-> NEUTRAL]

FallbackOf(row) ==
    [id |-> row.id, published_age |-> row.published_age,
     sentiment |-> row.sentiment,
     credibility_score |-> CredibilityOrDefault(row.credibility_score),
     recommendation_score |-> FALLBACK_SCORE]

RECURSIVE MapFallback(_)
MapFallback(rows) ==
    IF rows = <<>> THEN <<>> ELSE <<FallbackOf(rows[1])>> \o MapFallback(Tail(rows))

FallbackRows(arts) == {r \in ExistingRows(arts) : PublishedWithin(r, FALLBACK_WINDOW_H)}

\* what the try block of _get_fallback_articles does: raises when the query does
FallbackQuery(limit, arts, fails) ==
    IF fails THEN [raises |-> TRUE, val |-> <<>>]
    ELSE [raises |-> FALSE,
          val |-> MapFallback(Take(OrderRows(FallbackRows(arts), "credible"), limit))]

\* the fallback without its except clause
GetFallbackArticlesNoExcept(limit, arts, fails) == FallbackQuery(limit, arts, fails)

\* _get_fallback_articles: the except clause turns a raise into []
GetFallbackArticles(limit, arts, fails) ==
    LET q == FallbackQuery(limit, arts, fails) IN
    IF q.raises THEN [raises |-> FALSE, val |-> <<>>] ELSE q

-----------------------------------------------------------------------------
(* The hybrid scorer *)

RECURSIVE MatchSum(_, _, _)
\* sum over the keys of prefs[key] * per, for the keys the profile map holds
MatchSum(keys, prefs, per) ==
    IF keys = {} THEN 0
    ELSE LET k == CHOOSE x \in keys : TRUE IN
         (IF k \in DOMAIN prefs THEN prefs[k] * per ELSE 0)
             + MatchSum(keys \ {k}, prefs, per)

\* the content score starting from the neutral 0.5 where the code starts from 0.0
ContentBasedScoreNeutralStart(article, profile) ==
    Min(One, NEUTRAL + MatchSum(article.topics, profile.topic_preferences, 100)
                     + MatchSum(article.entities, profile.entity_interests, 50))

\* _content_based_score: weight (tenths) * 0.1 is weight * 100 in units of 1/One
ContentBasedScore(article, profile) ==
    Min(One, MatchSum(article.topics, profile.topic_preferences, 100)
               + MatchSum(article.entities, profile.entity_interests, 50))

EngagementCount(id, evs) ==
    Cardinality({i \in DOMAIN evs :
        evs[i].article_id = id /\ evs[i].age < POPULARITY_WINDOW_H})

\* _popularity_score: 0.5 when the count query raises
PopularityScore(article, evs, fails) ==
    IF fails THEN NEUTRAL
    ELSE Min(One, (EngagementCount(article.id, evs) * One) \div POPULARITY_DENOM)

\* the decay steps compared with < where the code compares with <=
FreshnessScoreStrictSteps(article) ==
    IF article.published_age = Null THEN NEUTRAL
    ELSE IF article.published_age < 1 THEN One
    ELSE IF article.published_age < 6 THEN 9000
    ELSE IF article.published_age < 24 THEN 7000
    ELSE IF article.published_age < 72 THEN 5000
    ELSE 3000

\* _freshness_score
FreshnessScore(article) ==
    IF article.published_age = Null THEN NEUTRAL
    ELSE IF article.published_age <= 1 THEN One
    ELSE IF article.published_age <= 6 THEN 9000
    ELSE IF article.published_age <= 24 THEN 7000
    ELSE IF article.published_age <= 72 THEN 5000
    ELSE 3000

\* the combination with the weights 0.3 / 0.3 / 0.2 / 0.2
WeightedSumOtherWeights(content, popularity, freshness, credibility) ==
    (content * 3 + popularity * 3 + freshness * 2 + credibility * 2) \div 10

\* the weighted combination of lines 208-213, before the clamp
WeightedSum(content, popularity, freshness, credibility) ==
    (content * 4 + popularity * 2 + freshness * 2 + credibility * 2) \div 10

\* the clamp without its upper bound
ClampNoUpper(x) == Max(0, x)

\* line 215
Clamp(x) == Min(One, Max(0, x))

\* _calculate_hybrid_score: faults names the sub-scores whose computation raises
CalculateHybridScore(article, profile, evs, faults) ==
    IF "content" \in faults THEN NEUTRAL
    ELSE Clamp(WeightedSum(ContentBasedScore(article, profile),
                           PopularityScore(article, evs, "popularity" \in faults),
                           FreshnessScore(article),
                           article.credibility_score))

WithScore(article, score) ==
    [id |-> article.id, published_age |-> article.published_age,
     sentiment |-> article.sentiment,
     credibility_score |-> article.credibility_score, topics |-> article.topics,
     entities |-> article.entities, recommendation_score |-> score]

RECURSIVE ScoreAll(_, _, _, _)
\* the scoring loop of get_personalized_feed
ScoreAll(cands, profile, evs, faults) ==
    IF cands = <<>> THEN <<>>
    ELSE <<WithScore(cands[1], CalculateHybridScore(cands[1], profile, evs, faults))>>
             \o ScoreAll(Tail(cands), profile, evs, faults)

-----------------------------------------------------------------------------
(* get_personalized_feed *)

\* the body of the try block: raises when a call inside it raises, hangs when
\* the re-ranking loop never exits
FeedTry(u, limit, lam, faults, cache, evs, arts) ==
    LET pr == GetUserProfile(u, cache, evs, arts, "profile" \in faults)
        cands == GetCandidateArticles(u, limit * CANDIDATE_FACTOR, evs, arts,
                                      "candidates" \in faults)
        scored == ScoreAll(cands, pr.profile, evs, faults)
    IN IF cands = <<>>
       THEN LET f == GetFallbackArticles(limit, arts, "fallback" \in faults) IN
            [raises |-> f.raises, hangs |-> FALSE, val |-> f.val, cache |-> pr.cache,
             profile |-> pr.profile, candidates |-> cands, scored |-> <<>>]
       ELSE LET r == ApplyDiversityReranking(scored, lam, limit) IN
            [raises |-> FALSE, hangs |-> r.hangs, val |-> r.val, cache |-> pr.cache,
             profile |-> pr.profile, candidates |-> cands, scored |-> scored]

\* the whole method: the except clause answers a raise with the fallback list
GetPersonalizedFeed(u, limit, lam, faults, cache, evs, arts) ==
    LET t == FeedTry(u, limit, lam, faults, cache, evs, arts)
        f == GetFallbackArticles(limit, arts, "fallback" \in faults)
    IN [outcome |-> IF t.raises THEN (IF f.raises THEN "raised" ELSE "returned")
                    ELSE IF t.hangs THEN "hung" ELSE "returned",
        result |-> IF t.raises THEN f.val ELSE IF t.hangs THEN <<>> ELSE t.val,
        cache |-> t.cache, profile |-> t.profile, candidates |-> t.candidates,
        scored |-> t.scored]

-----------------------------------------------------------------------------
(* State *)

IdleFeed == [outcome |-> "idle"]
IdleRank == [pc |-> "idle"]
IdleThread == [pc |-> "idle"]
IdleScore == [pc |-> "idle"]
\* the limiter before rate_limit(...) decorates an endpoint; Redis holds no key
IdleLimiter == [pc |-> "unset"]
\* no chat request yet: no message was added and no response given
IdleChat == [now |-> 0, asked |-> <<>>, last |-> [kind |-> "none"]]
Threads == 1..MaxThreads

\* the inputs the requests are drawn from
FeedLimits == 0..MaxLimit
FaultSets == {{}, {"profile"}, {"candidates"}, {"candidates", "fallback"},
              {"fallback"}, {"popularity"}, {"content"}}
\* (diversity_factor in tenths, the stages that raise): the default 0.3 under
\* every fault set, and 1.0
FeedInputs == {<<3, f>> : f \in FaultSets} \cup {<<10, {}>>}
\* (event_type, age in hours) of the rows written to user_events
EventSamples == {<<"click", 0>>, <<"bookmark", 0>>, <<"read", 3000>>}
EventArticleIds == ArticleIds \cup {Null}

Init ==
    /\ articles = [i \in ArticleIds |-> NoRow]
    /\ user_events = <<>>
    /\ user_profiles = [u \in Users |-> NoProfile]
    /\ feed = IdleFeed
    /\ rk = IdleRank
    /\ th = [t \in Threads |-> IdleThread]
    /\ builds = [u \in Users |-> 0]
    /\ fs = IdleScore
    /\ bookmarks = {}
    /\ rl = IdleLimiter
    /\ chat = IdleChat

-----------------------------------------------------------------------------
(* The writers of the tables *)

\* create_article and ingest_file: a new id, no published_at, credibility 70.0
CreateArticle(i) ==
    /\ feed = IdleFeed
    /\ ~articles[i].exists
    /\ articles' = [articles EXCEPT ![i] = Row(i, Null, TRUE, INGEST_CREDIBILITY)]
    /\ feed' = IdleFeed
    /\ UNCHANGED <<user_events, user_profiles, rk, th, builds, fs,
                 bookmarks, rl, chat>>

\* ingest_url: both inserts are ON CONFLICT DO NOTHING
IngestUrl(i) ==
    /\ feed = IdleFeed
    /\ articles' = [articles EXCEPT ![i] =
          IF ~articles[i].exists THEN Row(i, DocPublishedAge(i), TRUE, INGEST_CREDIBILITY)
          ELSE IF ~articles[i].has_nlp
               THEN Row(i, articles[i].published_age, TRUE, INGEST_CREDIBILITY)
               ELSE articles[i]]
    /\ articles' # articles
    /\ feed' = IdleFeed
    /\ UNCHANGED <<user_events, user_profiles, rk, th, builds, fs,
                 bookmarks, rl, chat>>

\* StoragePipeline.process_item: the articles row only, ON CONFLICT DO NOTHING
ProcessItem(i) ==
    /\ feed = IdleFeed
    /\ ~articles[i].exists
    /\ articles' = [articles EXCEPT ![i] = Row(i, DocPublishedAge(i), FALSE, Null)]
    /\ feed' = IdleFeed
    /\ UNCHANGED <<user_events, user_profiles, rk, th, builds, fs,
                 bookmarks, rl, chat>>

\* assess_article_credibility: UPDATE article_nlp SET credibility_score
AssessArticleCredibility(i, score) ==
    /\ feed = IdleFeed
    /\ articles[i].exists
    /\ articles[i].has_nlp
    /\ articles[i].credibility_score # score
    /\ articles' = [articles EXCEPT ![i].credibility_score = score]
    /\ feed' = IdleFeed
    /\ UNCHANGED <<user_events, user_profiles, rk, th, builds, fs,
                 bookmarks, rl, chat>>

\* ingest_event: the validated event, stamped now
IngestEvent(u, a, t) ==
    /\ feed = IdleFeed
    /\ Len(user_events) < MaxEvents
    /\ EventInValid(t)
    /\ user_events' = Append(user_events, Event(u, a, t, 0))
    /\ feed' = IdleFeed
    /\ UNCHANGED <<articles, user_profiles, rk, th, builds, fs,
                 bookmarks, rl, chat>>

\* a row of user_events from any writer of the table (the column is free text,
\* 'read' and 'bookmark' rows are what the recommender's queries look for)
StoreEvent(u, a, t, age) ==
    /\ feed = IdleFeed
    /\ Len(user_events) < MaxEvents
    /\ ~(EventInValid(t) /\ age = 0)
    /\ user_events' = Append(user_events, Event(u, a, t, age))
    /\ feed' = IdleFeed
    /\ UNCHANGED <<articles, user_profiles, rk, th, builds, fs,
                 bookmarks, rl, chat>>

\* a request served by get_personalized_feed on the recommender instance
Feed(u, limit, lam, faults) ==
    LET r == GetPersonalizedFeed(u, limit, lam, faults, user_profiles, user_events, articles)
    IN /\ feed = IdleFeed
       /\ feed' = [outcome |-> r.outcome, user |-> u, limit |-> limit, lam |-> lam,
                   faults |-> faults, profile |-> r.profile,
                   candidates |-> r.candidates, scored |-> r.scored,
                   result |-> r.result]
       /\ user_profiles' = r.cache
       /\ UNCHANGED <<articles, user_events, rk, th, builds, fs,
                 bookmarks, rl, chat>>

\* the response is delivered and the request is over
Respond ==
    /\ feed # IdleFeed
    /\ feed' = IdleFeed
    /\ UNCHANGED <<articles, user_events, user_profiles, rk, th, builds, fs,
                 bookmarks, rl, chat>>

Next ==
    \/ \E i \in ArticleIds : CreateArticle(i)
    \/ \E i \in ArticleIds : IngestUrl(i)
    \/ \E i \in ArticleIds : ProcessItem(i)
    \/ \E i \in ArticleIds, c \in AssessedCredibility : AssessArticleCredibility(i, c)
    \/ \E u \in Users, a \in EventArticleIds, s \in EventSamples : IngestEvent(u, a, s[1])
    \/ \E u \in Users, a \in EventArticleIds, s \in EventSamples :
          StoreEvent(u, a, s[1], s[2])
    \/ /\ feed = IdleFeed
       /\ \E u \in Users, l \in FeedLimits, in \in FeedInputs : Feed(u, l, in[1], in[2])
    \/ Respond

Spec == Init /\ [][Next]_vars

-----------------------------------------------------------------------------
(* _apply_diversity_reranking, one loop iteration at a time *)

\* the inputs of a call: scored candidates with pairwise distinct ids
RankScores == {4000, 8000}
RankLambdas == {0, 3, 10}
RankLimits == 0..MaxCands

RankItem(i, score, topics) ==
    [id |-> i, topics |-> topics, recommendation_score |-> score]

RankInputs ==
    UNION {[1..n -> RankScores \X (SUBSET Topics)] : n \in 0..MaxCands}

RankList(in) == [i \in DOMAIN in |-> RankItem(i, in[i][1], in[i][2])]

\* lines 299-310: the empty check, the sort, the first pick
RankCall(arts, lam, limit) ==
    /\ rk.pc = "idle"
    /\ rk' = IF arts = <<>>
             THEN [pc |-> "done", input |-> arts, lam |-> lam, limit |-> limit,
                   selected |-> <<>>, remaining |-> <<>>, stalled |-> FALSE]
             ELSE LET p == FirstPick(SortByScore(arts)) IN
                  [pc |-> "loop", input |-> arts, lam |-> lam, limit |-> limit,
                   selected |-> p.selected, remaining |-> p.remaining, stalled |-> FALSE]
    /\ UNCHANGED <<articles, user_events, user_profiles, feed, th, builds, fs,
                 bookmarks, rl, chat>>

\* the loop condition of line 313
LoopCondition(r) == Len(r.selected) < r.limit /\ r.remaining # <<>>

\* one iteration of the while loop (lines 314-338); with best_article None
\* no local changes and the loop comes round again (stalled records that an
\* iteration selected nothing)
RankIterate ==
    /\ rk.pc = "loop"
    /\ LoopCondition(rk)
    /\ LET b == BestIndex(rk.remaining, rk.selected, rk.lam) IN
       rk' = IF b = 0 THEN [rk EXCEPT !.stalled = TRUE]
             ELSE [rk EXCEPT !.selected = Append(rk.selected, rk.remaining[b]),
                             !.remaining = RemoveSelected(rk.remaining, rk.remaining[b])]
    /\ UNCHANGED <<articles, user_events, user_profiles, feed, th, builds, fs,
                 bookmarks, rl, chat>>

\* line 340
RankReturn ==
    /\ rk.pc = "loop"
    /\ ~LoopCondition(rk)
    /\ rk' = [rk EXCEPT !.pc = "done"]
    /\ UNCHANGED <<articles, user_events, user_profiles, feed, th, builds, fs,
                 bookmarks, rl, chat>>

RankForget ==
    /\ rk.pc = "done"
    /\ rk' = IdleRank
    /\ UNCHANGED <<articles, user_events, user_profiles, feed, th, builds, fs,
                 bookmarks, rl, chat>>

NextRank ==
    \/ /\ rk.pc = "idle"
       /\ \E in \in RankInputs, lam \in RankLambdas, n \in RankLimits :
             RankCall(RankList(in), lam, n)
    \/ RankIterate
    \/ RankReturn
    \/ RankForget

SpecRank == Init /\ [][NextRank]_vars

-----------------------------------------------------------------------------
(* Requests running _get_user_profile at once on the module-level instance
   `recommender`: the cache test, the query and build, and the cache store are
   separate steps of each thread *)

\* a request thread enters _get_user_profile(u)
ProfileEnter(t, u) ==
    /\ th[t].pc = "idle"
    /\ th' = [th EXCEPT ![t] = [pc |-> "check", user |-> u]]
    /\ UNCHANGED <<articles, user_events, user_profiles, feed, rk, builds, fs,
                 bookmarks, rl, chat>>

\* lines 63-64
ProfileCheck(t) ==
    /\ th[t].pc = "check"
    /\ th' = [th EXCEPT ![t] =
          IF user_profiles[th[t].user].cached
          THEN [pc |-> "done", user |-> th[t].user, profile |-> user_profiles[th[t].user]]
          ELSE [pc |-> "query", user |-> th[t].user]]
    /\ UNCHANGED <<articles, user_events, user_profiles, feed, rk, builds, fs,
                 bookmarks, rl, chat>>

\* lines 66-123: the event query runs and the maps are built
ProfileBuild(t) ==
    /\ th[t].pc = "query"
    /\ th' = [th EXCEPT ![t] =
          [pc |-> "store", user |-> th[t].user,
           profile |-> BuildProfile(th[t].user,
                                    ProfileRows(th[t].user, user_events, articles))]]
    /\ builds' = [builds EXCEPT ![th[t].user] = @ + 1]
    /\ UNCHANGED <<articles, user_events, user_profiles, feed, rk, fs,
                 bookmarks, rl, chat>>

\* lines 128-130: the query raises
ProfileQueryFails(t) ==
    /\ th[t].pc = "query"
    /\ th' = [th EXCEPT ![t] =
          [pc |-> "done", user |-> th[t].user, profile |-> ErrorProfile(th[t].user)]]
    /\ UNCHANGED <<articles, user_events, user_profiles, feed, rk, builds, fs,
                 bookmarks, rl, chat>>

\* lines 125-126
ProfileStore(t) ==
    /\ th[t].pc = "store"
    /\ user_profiles' = [user_profiles EXCEPT ![th[t].user] = th[t].profile]
    /\ th' = [th EXCEPT ![t].pc = "done"]
    /\ UNCHANGED <<articles, user_events, feed, rk, builds, fs,
                 bookmarks, rl, chat>>

NextConc ==
    \/ \E t \in Threads, u \in Users : ProfileEnter(t, u)
    \/ \E t \in Threads : ProfileCheck(t)
    \/ \E t \in Threads : ProfileBuild(t)
    \/ \E t \in Threads : ProfileQueryFails(t)
    \/ \E t \in Threads : ProfileStore(t)
    \/ \E i \in ArticleIds : IngestUrl(i)
    \/ \E u \in Users, a \in ArticleIds : IngestEvent(u, a, "click")

SpecConc == Init /\ [][NextConc]_vars

-----------------------------------------------------------------------------
(* _freshness_score called on articles of every age: fs keeps the age and the
   score of the last call and of the call before it *)

\* hours since publication of the article scored, Null for no published_at
ScoreAges == (0..MaxAgeH) \cup {Null}

FreshnessCall(age) ==
    LET score == FreshnessScore([published_age |-> age]) IN
    /\ fs' = [pc |-> "done", age |-> age, score |-> score,
              last_age |-> IF fs.pc = "idle" THEN age ELSE fs.age,
              last_score |-> IF fs.pc = "idle" THEN score ELSE fs.score]
    /\ UNCHANGED <<articles, user_events, user_profiles, feed, rk, th, builds,
                 bookmarks, rl, chat>>

NextScore == \E age \in ScoreAges : FreshnessCall(age)

SpecScore == Init /\ [][NextScore]_vars

-----------------------------------------------------------------------------
(* The candidate retriever over a catalogue larger than three times the feed
   size: URL ingestion, bookmarks of one user, and that user's feed requests
   with the default diversity factor and every query working *)

PoolArticleIds == 1..MaxPoolArticles

InitPool ==
    /\ articles = [i \in PoolArticleIds |-> NoRow]
    /\ user_events = <<>>
    /\ user_profiles = [u \in Users |-> NoProfile]
    /\ feed = IdleFeed
    /\ rk = IdleRank
    /\ th = [t \in Threads |-> IdleThread]
    /\ builds = [u \in Users |-> 0]
    /\ fs = IdleScore
    /\ bookmarks = {}
    /\ rl = IdleLimiter
    /\ chat = IdleChat

NextPool ==
    \/ \E i \in PoolArticleIds : IngestUrl(i)
    \/ \E a \in PoolArticleIds : StoreEvent("u1", a, "bookmark", 0)
    \/ /\ feed = IdleFeed
       /\ \E l \in FeedLimits : Feed("u1", l, 3, {})
    \/ Respond

SpecPool == InitPool /\ [][NextPool]_vars

\* the vector-nearest-neighbour set of the retriever's contract: up to k
\* unconsumed articles of the window that have a stored embedding, nearest first
RECURSIVE OrderByDistance(_)
OrderByDistance(rows) ==
    IF rows = {} THEN <<>>
    ELSE LET first == CHOOSE x \in rows :
                          \A y \in rows \ {x} : DocDistance(x.id) < DocDistance(y.id)
         IN <<first>> \o OrderByDistance(rows \ {first})

VectorNearest(u, k, evs, arts) ==
    MapCandidates(Take(OrderByDistance({r \in CandidateRows(u, evs, arts) : r.has_nlp}), k))

\* the ids of a list of candidates
IdsOf(list) == {list[i].id : i \in DOMAIN list}

-----------------------------------------------------------------------------
(* The API operations around the event log: event ingestion with every
   event_type a client may send, article ingestion, bookmark create / delete,
   and feed requests *)

\* event_type values of incoming requests: the six the pattern accepts, the
\* other names of the recommender's weight table, and a name known to neither
RequestEventTypes ==
    {"impression", "click", "dwell", "save", "like", "share",
     "read", "bookmark", "comment", "dwell_time", "view"}

\* delete_bookmark that also deletes the user's events on the article
DeleteBookmarkWithEvents(u, a) ==
    /\ feed = IdleFeed
    /\ <<u, a>> \in bookmarks
    /\ bookmarks' = bookmarks \ {<<u, a>>}
    /\ user_events' = SelectSeq(user_events,
                                LAMBDA e : ~(e.user_id = u /\ e.article_id = a))
    /\ UNCHANGED <<articles, user_profiles, feed, rk, th, builds, fs, rl, chat>>

\* create_bookmark: INSERT INTO bookmarks
CreateBookmark(u, a) ==
    /\ feed = IdleFeed
    /\ <<u, a>> \notin bookmarks
    /\ bookmarks' = bookmarks \cup {<<u, a>>}
    /\ UNCHANGED <<articles, user_events, user_profiles, feed, rk, th, builds, fs,
                   rl, chat>>

\* delete_bookmark: DELETE FROM bookmarks WHERE user_id = u AND article_id = a
DeleteBookmark(u, a) ==
    /\ feed = IdleFeed
    /\ <<u, a>> \in bookmarks
    /\ bookmarks' = bookmarks \ {<<u, a>>}
    /\ UNCHANGED <<articles, user_events, user_profiles, feed, rk, th, builds, fs,
                   rl, chat>>

NextLog ==
    \/ \E i \in ArticleIds : IngestUrl(i)
    \/ \E u \in Users, a \in EventArticleIds, t \in RequestEventTypes :
          IngestEvent(u, a, t)
    \/ \E u \in Users, a \in ArticleIds : CreateBookmark(u, a)
    \/ \E u \in Users, a \in ArticleIds : DeleteBookmark(u, a)
    \/ /\ feed = IdleFeed
       /\ \E u \in Users : Feed(u, MaxLimit, 3, {})
    \/ Respond

SpecLog == Init /\ [][NextLog]_vars

-----------------------------------------------------------------------------
(* The profile builder over event histories: the tables hold articles 1
   (topic t1) and 3 (topics t1, t2), both ingested by URL, and a log of up to
   MaxHistory events of every weighted type, of both users, on articles 1, 3
   and on the missing article 2; the users then request feeds *)

\* (event_type, age in hours) of the rows of a history: the seven types of the
\* weight table, a type outside it, and a click older than the 90-day window
HistorySamples ==
    {<<"click", 0>>, <<"read", 0>>, <<"bookmark", 0>>, <<"share", 0>>,
     <<"like", 0>>, <<"comment", 0>>, <<"dwell_time", 0>>, <<"dwell", 0>>,
     <<"click", 3000>>}

HistoryEvents ==
    {Event(u, a, s[1], s[2]) : u \in Users, a \in 1..3, s \in HistorySamples}

Histories == UNION {[1..n -> HistoryEvents] : n \in 0..MaxHistory}

InitProfile ==
    /\ articles = [i \in PoolArticleIds |->
                      IF i \in {1, 3}
                      THEN Row(i, DocPublishedAge(i), TRUE, INGEST_CREDIBILITY)
                      ELSE NoRow]
    /\ user_events \in Histories
    /\ user_profiles = [u \in Users |-> NoProfile]
    /\ feed = IdleFeed
    /\ rk = IdleRank
    /\ th = [t \in Threads |-> IdleThread]
    /\ builds = [u \in Users |-> 0]
    /\ fs = IdleScore
    /\ bookmarks = {}
    /\ rl = IdleLimiter
    /\ chat = IdleChat

NextProfile ==
    \/ /\ feed = IdleFeed
       /\ \E u \in Users : Feed(u, MaxLimit, 3, {})
    \/ Respond

SpecProfile == InitProfile /\ [][NextProfile]_vars

-----------------------------------------------------------------------------
(* RateLimiter.is_allowed on one key.  The sorted set of the key is the set of
   its members: a member is str(current_time), the second of the call, and its
   score is the same second.  rl.granted lists the seconds of the calls that
   returned True *)

\* the members left by zremrangebyscore(key, 0, current_time - window), after the
\* key's expiry
LiveMembers(r) ==
    IF r.expires # Null /\ r.now >= r.expires THEN {}
    ELSE {m \in r.zset : ~(0 <= m /\ m <= r.now - r.window)}

\* zadd(key, {str(current_time): current_time})
ZAdd(members, r) == members \cup {r.now}

\* the decorator fixes the limit and the window of the key
RateLimit(limit, window) ==
    /\ rl.pc = "unset"
    /\ rl' = [pc |-> "set", limit |-> limit, window |-> window, now |-> 0,
              zset |-> {}, expires |-> Null, calls |-> 0, granted |-> <<>>]
    /\ UNCHANGED <<articles, user_events, user_profiles, feed, rk, th, builds, fs,
                   bookmarks, chat>>

\* one call of is_allowed(key, limit, window) with a working Redis
IsAllowed ==
    /\ rl.pc = "set"
    /\ rl.calls < MaxCalls
    /\ LET live == LiveMembers(rl)
           current_requests == Cardinality(live)
       IN rl' = [rl EXCEPT !.zset = ZAdd(live, rl),
                           !.expires = rl.now + rl.window,
                           !.calls = rl.calls + 1,
                           !.granted = IF current_requests < rl.limit
                                       THEN Append(rl.granted, rl.now)
                                       ELSE rl.granted]
    /\ UNCHANGED <<articles, user_events, user_profiles, feed, rk, th, builds, fs,
                   bookmarks, chat>>

\* a second passes
Tick ==
    /\ rl.pc = "set"
    /\ rl.now < MaxTime
    /\ rl' = [rl EXCEPT !.now = rl.now + 1]
    /\ UNCHANGED <<articles, user_events, user_profiles, feed, rk, th, builds, fs,
                   bookmarks, chat>>

NextRate ==
    \/ \E limit \in 1..MaxRate, window \in 1..MaxWindow : RateLimit(limit, window)
    \/ IsAllowed
    \/ Tick

SpecRate == Init /\ [][NextRate]_vars

-----------------------------------------------------------------------------
(* The chat endpoints.  Every request builds its own NewsRAGChatSystem, whose
   ConversationManager starts with no conversation; chat.asked lists the
   (conversation_id, question) of the answered /ask requests and chat.last is
   the last response *)

Questions == {"q1", "q2"}

\* the answer of the RAG chain to a question
AnswerOf(q) == <<"answer", q>>

\* create_rag_chat_system: the conversations of a new ConversationManager
CreateRagChatSystem == <<>>

\* conv_{user_id}_{timestamp to the second}
ConversationId(user, now) == [user |-> user, at |-> now]

\* conversation_id None
NoConversation == [user |-> "none", at |-> Null]

\* ConversationManager.start_conversation: the dictionary afterwards
StartConversationIn(convs, user, now) ==
    [c \in DOMAIN convs \cup {ConversationId(user, now)} |->
        IF c = ConversationId(user, now) THEN <<>> ELSE convs[c]]

\* ConversationManager.add_message
AddMessage(convs, c, msg) ==
    IF c \in DOMAIN convs THEN [convs EXCEPT ![c] = Append(convs[c], msg)]
    ELSE convs

\* NewsRAGChatSystem.ask_question: the conversation id of the response and the
\* manager's conversations afterwards
AskQuestion(convs, question, user, conversation_id, now) ==
    LET c == IF conversation_id = NoConversation THEN ConversationId(user, now)
             ELSE conversation_id
        c0 == IF conversation_id = NoConversation
              THEN StartConversationIn(convs, user, now)
              ELSE convs
        c1 == AddMessage(c0, c, [type |-> "user_question", content |-> question])
        c2 == AddMessage(c1, c, [type |-> "system_response",
                                 content |-> AnswerOf(question)])
    IN [conversation_id |-> c, conversations |-> c2]

\* NewsRAGChatSystem.get_conversation_history
GetConversationHistory(convs, c) ==
    IF c \in DOMAIN convs THEN convs[c] ELSE <<>>

\* the conversation ids the responses so far have handed out
KnownConversations ==
    {chat.asked[k].conversation_id : k \in DOMAIN chat.asked}
        \cup (IF chat.last.kind = "start" THEN {chat.last.conversation_id} ELSE {})

\* POST /chat/ask
ChatAsk(user, conversation_id, question) ==
    /\ Len(chat.asked) < MaxAsks
    /\ LET r == AskQuestion(CreateRagChatSystem, question, user, conversation_id,
                            chat.now)
       IN chat' = [chat EXCEPT
                      !.asked = Append(chat.asked,
                                       [conversation_id |-> r.conversation_id,
                                        question |-> question]),
                      !.last = [kind |-> "answer",
                                conversation_id |-> r.conversation_id,
                                answer |-> AnswerOf(question)]]
    /\ UNCHANGED <<articles, user_events, user_profiles, feed, rk, th, builds, fs,
                   bookmarks, rl>>

\* GET /chat/conversation/{conversation_id}/history
ChatHistory(conversation_id) ==
    /\ LET history == GetConversationHistory(CreateRagChatSystem, conversation_id)
       IN chat' = [chat EXCEPT !.last = [kind |-> "history",
                                         conversation_id |-> conversation_id,
                                         messages |-> history]]
    /\ UNCHANGED <<articles, user_events, user_profiles, feed, rk, th, builds, fs,
                   bookmarks, rl>>

\* POST /chat/conversation/start
ChatStart(user) ==
    /\ LET convs == StartConversationIn(CreateRagChatSystem, user, chat.now)
       IN chat' = [chat EXCEPT !.last = [kind |-> "start",
                                         conversation_id |-> CHOOSE c \in DOMAIN convs : TRUE]]
    /\ UNCHANGED <<articles, user_events, user_profiles, feed, rk, th, builds, fs,
                   bookmarks, rl>>

ChatTick ==
    /\ chat.now < MaxChatTime
    /\ chat' = [chat EXCEPT !.now = chat.now + 1]
    /\ UNCHANGED <<articles, user_events, user_profiles, feed, rk, th, builds, fs,
                   bookmarks, rl>>

NextChat ==
    \/ \E u \in Users, c \in KnownConversations \cup {NoConversation}, q \in Questions :
          ChatAsk(u, c, q)
    \/ \E c \in KnownConversations : ChatHistory(c)
    \/ \E u \in Users : ChatStart(u)
    \/ ChatTick

SpecChat == Init /\ [][NextChat]_vars

-----------------------------------------------------------------------------
(* Properties *)

InUnitInterval(x) == 0 <= x /\ x <= One

NoDuplicateIds(list) ==
    \A i, j \in DOMAIN list : i # j => list[i].id # list[j].id

\* the user has a read or bookmark event on article id, of any age
HasConsumed(u, id) ==
    \E k \in DOMAIN user_events :
        /\ user_events[k].user_id = u
        /\ user_events[k].article_id = id
        /\ user_events[k].event_type \in {"read", "bookmark"}

\* a read or bookmark event of the user carries no article id
HasConsumedNull(u) == HasConsumed(u, Null)

\* an article published inside the last `hours` hours
PublishedInside(i, hours) ==
    /\ articles[i].exists
    /\ articles[i].published_age # Null
    /\ articles[i].published_age < hours

\* an article of the 14-day window the user has neither read nor bookmarked
EligibleCandidateExists(u) ==
    \E i \in ArticleIds : PublishedInside(i, CANDIDATE_WINDOW_H) /\ ~HasConsumed(u, i)

RecentArticleExists == \E i \in ArticleIds : PublishedInside(i, FALLBACK_WINDOW_H)

\* C1: every candidate scored by _calculate_hybrid_score, and every entry of a
\* list returned by get_personalized_feed, has a recommendation_score in [0,1],
\* whatever the stored credibility and whichever sub-score raised.
C1_ScoreInUnitInterval ==
    feed.outcome # "idle" =>
        /\ \A i \in DOMAIN feed.scored : InUnitInterval(feed.scored[i].recommendation_score)
        /\ \A i \in DOMAIN feed.result : InUnitInterval(feed.result[i].recommendation_score)

\* a returned candidate whose stored credibility is above 1.0 and whose weighted
\* sum was clamped to 1.0
C1_Witness ==
    /\ feed.outcome = "returned"
    /\ \E i \in DOMAIN feed.result :
          /\ feed.result[i].credibility_score > One
          /\ feed.result[i].recommendation_score = One
          /\ \E j \in DOMAIN feed.scored : feed.scored[j] = feed.result[i]

\* C2: a list returned by get_personalized_feed (personalized or fallback
\* path) holds no article id twice, and _apply_diversity_reranking applied to
\* the scored candidates selects no candidate twice for any diversity factor
\* and target size.
C2_NoDuplicateIds ==
    feed.outcome # "idle" =>
        /\ NoDuplicateIds(feed.result)
        /\ NoDuplicateIds(feed.scored)
        /\ \A lam \in RankLambdas, n \in RankLimits :
              NoDuplicateIds(ApplyDiversityReranking(feed.scored, lam, n).val)

\* a personalized list of two entries
C2_Witness ==
    /\ feed.outcome = "returned"
    /\ feed.scored # <<>>
    /\ Len(feed.result) >= 2

\* C3 (as claimed): for every N >= 0 _apply_diversity_reranking returns at
\* most N candidates.
C3_AtMostLimit == rk.pc = "done" => Len(rk.selected) <= rk.limit

\* C4 (as claimed): for N >= 1 and a non-empty input, every iteration of the
\* selection loop selects a candidate and the run ends with exactly
\* min(N, number of candidates) selected.
C4_LoopSelectsAndEnds ==
    (rk.pc # "idle" /\ rk.limit >= 1 /\ rk.input # <<>>) =>
        /\ ~rk.stalled
        /\ rk.pc = "done" => Len(rk.selected) = Min(rk.limit, Len(rk.input))

\* C5: get_personalized_feed never raises, whichever queries fail: it returns a
\* list unless the re-ranking loop spins (diversity factor >= 1.0), and
\* _get_fallback_articles never raises.
C5_NoExceptionPropagates ==
    /\ feed.outcome # "raised"
    /\ (feed.outcome = "hung" => feed.lam >= 10)
    /\ \A l \in FeedLimits, fails \in BOOLEAN :
          ~GetFallbackArticles(l, articles, fails).raises

\* the candidate query and the fallback query both failed, with an article in
\* both windows, and the call returned the empty list
C5_Witness ==
    /\ feed.outcome = "returned"
    /\ feed.faults = {"candidates", "fallback"}
    /\ feed.limit >= 1
    /\ RecentArticleExists
    /\ feed.result = <<>>

\* C6: when the candidate retriever returns nothing, get_personalized_feed
\* returns the list of _get_fallback_articles(limit), every entry scored 0.6.
C6_EmptyPoolGivesFallback ==
    (feed.outcome # "idle" /\ feed.candidates = <<>>) =>
        /\ feed.outcome = "returned"
        /\ feed.result =
              GetFallbackArticles(feed.limit, articles, "fallback" \in feed.faults).val
        /\ \A i \in DOMAIN feed.result :
              feed.result[i].recommendation_score = FALLBACK_SCORE

\* an empty pool answered with a non-empty fallback list
C6_Witness ==
    /\ feed.outcome = "returned"
    /\ feed.candidates = <<>>
    /\ feed.result # <<>>

\* C7 (as claimed): an empty list is returned only when no eligible candidate
\* exists in the 14-day window and no article exists in the 7-day window.
C7_EmptyOnlyWhenNothingExists ==
    (feed.outcome = "returned" /\ feed.result = <<>>) =>
        /\ ~EligibleCandidateExists(feed.user)
        /\ ~RecentArticleExists

\* C7 (amended): an empty list is returned only when limit is 0, or when the
\* candidate query yields nothing (it raised, no unconsumed article lies in the
\* 14-day window, or a read/bookmark event of the user has a NULL article id)
\* and the fallback query yields nothing (it raised, or no article lies in the
\* 7-day window).
C7_EmptyOnlyWhenQueriesYieldNothing ==
    (feed.outcome = "returned" /\ feed.result = <<>>) =>
        \/ feed.limit = 0
        \/ /\ \/ "candidates" \in feed.faults
              \/ ~EligibleCandidateExists(feed.user)
              \/ HasConsumedNull(feed.user)
           /\ \/ "fallback" \in feed.faults
              \/ ~RecentArticleExists

\* an empty list for limit >= 1 with both queries working and an article stored
C7_Witness ==
    /\ feed.outcome = "returned"
    /\ feed.result = <<>>
    /\ feed.limit >= 1
    /\ feed.faults = {}
    /\ \E i \in ArticleIds : articles[i].exists

\* C8: no article the user has a read or bookmark event on, of whatever age,
\* is in the candidate pool of _get_candidate_articles for that user.
C8_ConsumedNeverCandidate ==
    feed.outcome # "idle" =>
        \A i \in DOMAIN feed.candidates : ~HasConsumed(feed.user, feed.candidates[i].id)

\* the user's read event is older than every window, its article lies in the
\* 14-day window, and the pool holds another article
C8_Witness ==
    /\ feed.outcome = "returned"
    /\ feed.candidates # <<>>
    /\ \E k \in DOMAIN user_events :
          /\ user_events[k].user_id = feed.user
          /\ user_events[k].event_type = "read"
          /\ user_events[k].age >= PROFILE_WINDOW_H
          /\ user_events[k].article_id \in ArticleIds
          /\ PublishedInside(user_events[k].article_id, CANDIDATE_WINDOW_H)

\* C9 (as claimed): the credibility_score of every candidate handed to the
\* hybrid scorer, and of every returned article, lies in [0,1].
C9_CredibilityNormalized ==
    feed.outcome # "idle" =>
        /\ \A i \in DOMAIN feed.candidates :
              InUnitInterval(feed.candidates[i].credibility_score)
        /\ \A i \in DOMAIN feed.result :
              InUnitInterval(feed.result[i].credibility_score)

\* C10 (as claimed): the profile of a user is constructed at most once on the
\* shared recommender instance.
C10_ProfileBuiltOnce == \A u \in Users : builds[u] <= 1

\* what the user's events give now: the profile a fresh build would return
FreshProfile(u) == BuildProfile(u, ProfileRows(u, user_events, articles))

\* a profile is cached for u and the user's events no longer give it
StaleProfile(u) ==
    /\ user_profiles[u].cached
    /\ ProfileRows(u, user_events, articles) # <<>>
    /\ user_profiles[u] # FreshProfile(u)

\* some call of get_personalized_feed for u, of any limit and diversity factor
FeedCall(u) == \E l \in FeedLimits, in \in FeedInputs : Feed(u, l, in[1], in[2])

\* C11 (as claimed): a profile that a completed call built and cached is the
\* profile the cache still holds, hence what every later call for that user
\* returns, whatever was recorded or run in between.
C11_CachedProfileStays ==
    \A t \in Threads :
        (th[t].pc = "done" /\ th[t].profile.cached) =>
            user_profiles[th[t].user] = th[t].profile

\* C12 (as claimed): whenever a cached profile no longer reflects the user's
\* events, some operation of the recommender serves that user with a profile
\* that does.
C12_RefreshOperationExists ==
    \A u \in Users :
        (feed = IdleFeed /\ StaleProfile(u)) =>
            ENABLED (FeedCall(u) /\ feed'.profile = FreshProfile(u))

\* C13 (as claimed): when the event query fails the call does not raise and
\* is served with a profile whose topic, entity and sentiment maps are empty.
C13_ErrorProfileHasEmptyMaps ==
    (feed.outcome # "idle" /\ "profile" \in feed.faults
        /\ ~user_profiles[feed.user].cached) =>
        /\ feed.outcome # "raised"
        /\ feed.profile.user_id = feed.user
        /\ {"topic_preferences", "entity_interests", "sentiment_preference"}
               \subseteq DOMAIN feed.profile
        /\ feed.profile.topic_preferences = <<>>
        /\ feed.profile.entity_interests = <<>>
        /\ feed.profile.sentiment_preference = <<>>

\* the user has no row in user_events
NoEventsOf(u) == \A k \in DOMAIN user_events : user_events[k].user_id # u

\* C14: for a user with no events the built profile has empty topic, entity
\* and sentiment maps, and _content_based_score is 0 for every candidate
\* scored against it.
C14_ColdStartContentIsZero ==
    (feed.outcome # "idle" /\ NoEventsOf(feed.user) /\ feed.profile.cached) =>
        /\ feed.profile.topic_preferences = <<>>
        /\ feed.profile.entity_interests = <<>>
        /\ feed.profile.sentiment_preference = <<>>
        /\ \A i \in DOMAIN feed.candidates :
              ContentBasedScore(feed.candidates[i], feed.profile) = 0

\* a user without events served candidates that carry topics and entities,
\* while the other user has an event on one of them
C14_Witness ==
    /\ feed.outcome = "returned"
    /\ NoEventsOf(feed.user)
    /\ feed.profile.cached
    /\ user_events # <<>>
    /\ \E i \in DOMAIN feed.candidates :
          /\ feed.candidates[i].topics # {}
          /\ feed.candidates[i].entities # {}
          /\ \E k \in DOMAIN user_events :
                user_events[k].article_id = feed.candidates[i].id

\* x stands before y in the descending-score order with ties in input order
\* (the id of a re-ranker input is its position in the input list)
RanksBefore(x, y) ==
    \/ x.recommendation_score > y.recommendation_score
    \/ x.recommendation_score = y.recommendation_score /\ x.id < y.id

\* C15: with diversity_factor 0 and N >= 1 the re-ranker returns the first
\* min(N, count) candidates of the input in descending score order, equal
\* scores in their input order.
C15_ZeroDiversityIsTopN ==
    (rk.pc = "done" /\ rk.lam = 0 /\ rk.limit >= 1) =>
        /\ Len(rk.selected) = Min(rk.limit, Len(rk.input))
        /\ Range(rk.selected) \subseteq Range(rk.input)
        /\ \A i, j \in DOMAIN rk.selected :
              i < j => RanksBefore(rk.selected[i], rk.selected[j])
        /\ \A x \in Range(rk.input) \ Range(rk.selected) :
              \A i \in DOMAIN rk.selected : RanksBefore(rk.selected[i], x)

\* a finished run with diversity_factor 0 that ranked two candidates of equal
\* score and left a candidate out
C15_Witness ==
    /\ rk.pc = "done"
    /\ rk.lam = 0
    /\ rk.limit >= 2
    /\ Len(rk.selected) = rk.limit
    /\ Len(rk.input) > rk.limit
    /\ \E i, j \in DOMAIN rk.selected :
          /\ i # j
          /\ rk.selected[i].recommendation_score = rk.selected[j].recommendation_score

\* the similarity is the quotient |intersection| / |union| (as similarity *
\* SimScale, compared by cross-multiplication)
IsJaccard(sim, t1, t2) ==
    sim * Cardinality(t1 \cup t2) = SimScale * Cardinality(t1 \cap t2)

\* C16 (as claimed): the similarity of two candidates is |intersection| /
\* |union| of their topic sets, 1.0 for identical topic sets, 0.0 for disjoint
\* non-empty ones and 0.0 when either set is empty.
C16_JaccardAsClaimed ==
    rk.pc # "idle" =>
        \A i, j \in DOMAIN rk.input :
            LET t1 == rk.input[i].topics
                t2 == rk.input[j].topics
                sim == CalculateArticleSimilarity(rk.input[i], rk.input[j])
            IN /\ (t1 # {} /\ t2 # {}) => IsJaccard(sim, t1, t2)
               /\ t1 = t2 => sim = SimScale
               /\ (t1 # {} /\ t2 # {} /\ t1 \cap t2 = {}) => sim = 0
               /\ (t1 = {} \/ t2 = {}) => sim = 0

\* C16 (amended): the similarity is |intersection| / |union|, 1.0 for identical
\* non-empty topic sets, 0.0 for disjoint non-empty ones, and 0.0 when either
\* set is empty (two empty sets included).
C16_JaccardNonEmpty ==
    rk.pc # "idle" =>
        \A i, j \in DOMAIN rk.input :
            LET t1 == rk.input[i].topics
                t2 == rk.input[j].topics
                sim == CalculateArticleSimilarity(rk.input[i], rk.input[j])
            IN /\ (t1 # {} /\ t2 # {}) => IsJaccard(sim, t1, t2)
               /\ (t1 = t2 /\ t1 # {}) => sim = SimScale
               /\ (t1 # {} /\ t2 # {} /\ t1 \cap t2 = {}) => sim = 0
               /\ (t1 = {} \/ t2 = {}) => sim = 0

\* a finished run with a positive diversity factor that selected three
\* candidates: two with the same non-empty topic set and one sharing no topic
\* with them
C16_Witness ==
    /\ rk.pc = "done"
    /\ rk.lam > 0
    /\ Len(rk.selected) = 3
    /\ \E i, j, k \in DOMAIN rk.input :
          /\ i # j
          /\ rk.input[i].topics # {}
          /\ rk.input[i].topics = rk.input[j].topics
          /\ rk.input[k].topics # {}
          /\ rk.input[k].topics \cap rk.input[i].topics = {}

\* ten times 0.4*content + 0.2*popularity + 0.2*freshness + 0.2*credibility of
\* a scored candidate, from the sub-scores and the profile of the call
TenTimesFormula(c) ==
    4 * ContentBasedScore(c, feed.profile)
        + 2 * PopularityScore(c, user_events, "popularity" \in feed.faults)
        + 2 * FreshnessScore(c)
        + 2 * c.credibility_score

\* C17: when no sub-score raises, the hybrid score of a candidate equals
\* 0.4*content + 0.2*popularity + 0.2*freshness + 0.2*credibility clamped to
\* [0,1], with the values of the three sub-score methods and the candidate's
\* credibility_score.
C17_HybridIsWeightedSum ==
    (feed.outcome # "idle" /\ "content" \notin feed.faults) =>
        \A i \in DOMAIN feed.scored :
            LET c == feed.scored[i]
                score == c.recommendation_score
            IN /\ (0 <= TenTimesFormula(c) /\ TenTimesFormula(c) <= 10 * One)
                      => 10 * score = TenTimesFormula(c)
               /\ TenTimesFormula(c) > 10 * One => score = One
               /\ TenTimesFormula(c) < 0 => score = 0

\* a scored candidate with a positive content term, a positive popularity
\* term and an assessed credibility, whose sum is not clamped, next to one
\* whose sum is clamped
C17_Witness ==
    /\ feed.outcome = "returned"
    /\ \E i \in DOMAIN feed.scored :
          /\ ContentBasedScore(feed.scored[i], feed.profile) > 0
          /\ PopularityScore(feed.scored[i], user_events, FALSE) > 0
          /\ feed.scored[i].credibility_score \in AssessedCredibility
          /\ feed.scored[i].recommendation_score < One
    /\ \E j \in DOMAIN feed.scored : TenTimesFormula(feed.scored[j]) > 10 * One

\* C18: _freshness_score is 1.0 up to 1 hour of age, 0.9 up to 6, 0.7 up to 24,
\* 0.5 up to 72 and 0.3 beyond, 0.5 without a publication date, and of two
\* ages the smaller never scores lower.
C18_FreshnessSteps ==
    fs.pc = "done" =>
        /\ fs.age = Null => fs.score = 5000
        /\ fs.age \in 0..1 => fs.score = 10000
        /\ fs.age \in 2..6 => fs.score = 9000
        /\ fs.age \in 7..24 => fs.score = 7000
        /\ fs.age \in 25..72 => fs.score = 5000
        /\ (fs.age # Null /\ fs.age > 72) => fs.score = 3000
        /\ (fs.age # Null /\ fs.last_age # Null /\ fs.last_age <= fs.age)
              => fs.last_score >= fs.score

\* two calls on the two sides of the last breakpoint: 72 hours, then 73
C18_Witness ==
    /\ fs.pc = "done"
    /\ fs.last_age = 72
    /\ fs.age = 73
    /\ fs.last_score > fs.score

\* C19 (as claimed): the pool built for a feed of size N holds at most 2N
\* candidates, with pairwise distinct article ids.
C19_PoolAtMostTwiceN ==
    feed.outcome # "idle" =>
        /\ Len(feed.candidates) <= 2 * feed.limit
        /\ NoDuplicateIds(feed.candidates)

\* C19 (amended): the pool built for a feed of size N holds at most 3N
\* candidates, with pairwise distinct article ids.
C19_PoolAtMostThriceN ==
    feed.outcome # "idle" =>
        /\ Len(feed.candidates) <= 3 * feed.limit
        /\ NoDuplicateIds(feed.candidates)

\* a feed of size 1 over four eligible articles: the pool holds three of them
C19_Witness ==
    /\ feed.outcome = "returned"
    /\ feed.limit = 1
    /\ Len(feed.candidates) = 3
    /\ Cardinality(CandidateRows(feed.user, user_events, articles)) = 4

C21_EventTypesInFixedSet ==
    \A k \in DOMAIN user_events :
        user_events[k].event_type \in
            {"click", "read", "bookmark", "share", "like", "comment",
             "dwell_time", "impression", "save"}

ClaimedWeight(event_type) ==
    CASE event_type = "click" -> 10
      [] event_type = "read" -> 20
      [] event_type = "bookmark" -> 30
      [] event_type = "share" -> 40
      [] event_type = "like" -> 25
      [] event_type = "comment" -> 35
      [] event_type = "dwell_time" -> 15
      [] OTHER -> 10

\* the positions in the log of the user's events of the last 90 days whose
\* article is stored
WindowEvents(u) ==
    {k \in DOMAIN user_events :
        /\ user_events[k].user_id = u
        /\ user_events[k].age < 2160
        /\ user_events[k].article_id \in DOMAIN articles
        /\ articles[user_events[k].article_id].exists}

\* those of them whose article carries topic t
TopicEvents(u, t) ==
    {k \in WindowEvents(u) : t \in articles[user_events[k].article_id].topics}

RECURSIVE SumClaimed(_)
SumClaimed(S) ==
    IF S = {} THEN 0
    ELSE LET k == CHOOSE x \in S : TRUE
         IN ClaimedWeight(user_events[k].event_type) + SumClaimed(S \ {k})

\* C23: in a built profile the weight of topic t is the sum of the table's
\* weights of the user's events of the 90-day window whose article carries t,
\* and a topic without such an event is absent from the map.
C23_TopicWeightIsSum ==
    (feed.outcome # "idle" /\ feed.profile.cached) =>
        \A t \in Topics :
            IF TopicEvents(feed.user, t) = {}
            THEN t \notin DOMAIN feed.profile.topic_preferences
            ELSE /\ t \in DOMAIN feed.profile.topic_preferences
                 /\ feed.profile.topic_preferences[t]
                        = SumClaimed(TopicEvents(feed.user, t))

\* a profile built from two events of different weight, one on each article:
\* both count for t1 and one of them for t2, beside an event of the other user
C23_Witness ==
    /\ feed.outcome = "returned"
    /\ feed.profile.cached
    /\ Cardinality(TopicEvents(feed.user, "t1")) = 2
    /\ Cardinality(TopicEvents(feed.user, "t2")) = 1
    /\ feed.profile.topic_preferences["t1"] > feed.profile.topic_preferences["t2"]
    /\ feed.profile.topic_preferences["t1"] # 2 * feed.profile.topic_preferences["t2"]

\* C24 (as claimed): total_interactions of a built profile is the number of
\* events aggregated into it.
C24_TotalCountsEvents ==
    (feed.outcome # "idle" /\ feed.profile.cached) =>
        feed.profile.total_interactions = Cardinality(WindowEvents(feed.user))

\* the hybrid score of a scored candidate when content is d and popularity p
SumWithSubScores(c, d, p) ==
    Min(One, Max(0, (4 * d + 2 * p + 2 * FreshnessScore(c) + 2 * c.credibility_score)
                        \div 10))

\* C25 (as claimed): when one sub-score fails, only that sub-score is replaced
\* by a default (0.5 for popularity; 0.0 or 0.5 for content, which has no
\* stated default) and the others still enter the weighted sum.  Stated for
\* candidates whose credibility is a probability.
C25_FailureReplacesOnlySubScore ==
    feed.outcome # "idle" =>
        \A i \in DOMAIN feed.scored :
            LET c == feed.scored[i]
                pop == Min(One, (EngagementCount(c.id, user_events) * One) \div 50)
            IN c.credibility_score <= One =>
                /\ "popularity" \in feed.faults =>
                       c.recommendation_score
                           = SumWithSubScores(c, ContentBasedScore(c, feed.profile), NEUTRAL)
                /\ "content" \in feed.faults =>
                       \E d \in {0, NEUTRAL} :
                           c.recommendation_score = SumWithSubScores(c, d, pop)

\* six times the topic-Jaccard similarity of two candidates (0 when either has
\* no topic)
SixJaccard(x, y) ==
    IF x.topics = {} \/ y.topics = {} THEN 0
    ELSE (6 * Cardinality(x.topics \cap y.topics)) \div Cardinality(x.topics \cup y.topics)

RECURSIVE SixJaccardSum(_, _, _)
SixJaccardSum(x, list, k) ==
    IF k = 0 THEN 0 ELSE SixJaccard(x, list[k]) + SixJaccardSum(x, list, k - 1)

\* (1 - diversity_factor) * score - diversity_factor * (average Jaccard to the
\* first k entries of list), times 60 * k
ClaimedMmr(x, list, k, lam) ==
    6 * k * (10 - lam) * x.recommendation_score
        - lam * One * SixJaccardSum(x, list, k)

\* the candidates of the input that are not among the first k entries of list
NotAmongFirst(list, k) ==
    {x \in Range(rk.input) : \A j \in 1..k : list[j] # x}

\* C26: the first entry of the returned list has the maximum score, and every
\* later entry maximises (1 - diversity_factor)*score - diversity_factor*penalty
\* over the candidates not selected before it, the earliest in descending-score
\* order among equal maxima.
C26_EachPickMaximisesMmr ==
    (rk.pc = "done" /\ rk.selected # <<>>) =>
        /\ rk.selected[1] \in Range(rk.input)
        /\ \A y \in Range(rk.input) :
              y.recommendation_score <= rk.selected[1].recommendation_score
        /\ \A k \in 2..Len(rk.selected) :
              LET x == rk.selected[k] IN
              /\ x \in NotAmongFirst(rk.selected, k - 1)
              /\ \A y \in NotAmongFirst(rk.selected, k - 1) :
                    LET mx == ClaimedMmr(x, rk.selected, k - 1, rk.lam)
                        my == ClaimedMmr(y, rk.selected, k - 1, rk.lam)
                    IN /\ my <= mx
                       /\ (my = mx /\ y # x) => RanksBefore(x, y)

\* a returned list of three where diversity put a lower-scored candidate before
\* a higher-scored one
C26_Witness ==
    /\ rk.pc = "done"
    /\ rk.lam = 3
    /\ Len(rk.selected) = 3
    /\ rk.selected[2].recommendation_score < rk.selected[3].recommendation_score

\* the number of calls that returned True in the window seconds from second t
GrantedWithin(t) ==
    Cardinality({k \in DOMAIN rl.granted :
                    t <= rl.granted[k] /\ rl.granted[k] < t + rl.window})

\* C27 (as claimed): in any interval of `window` seconds at most `limit` calls
\* of is_allowed return True, calls within the same second included.
C27_AtMostLimitPerWindow ==
    rl.pc = "set" => \A t \in 0..MaxTime : GrantedWithin(t) <= rl.limit

\* the messages the questions asked in conversation c add to it, in order, up
\* to the k-th answered request
RECURSIVE MessagesAsked(_, _)
MessagesAsked(c, k) ==
    IF k = 0 THEN <<>>
    ELSE MessagesAsked(c, k - 1)
            \o (IF chat.asked[k].conversation_id = c
                THEN <<[type |-> "user_question", content |-> chat.asked[k].question],
                       [type |-> "system_response",
                        content |-> AnswerOf(chat.asked[k].question)]>>
                ELSE <<>>)

\* C28 (as claimed): the history endpoint, called for a conversation in which a
\* question was asked, returns the messages of that conversation (each user
\* question and its system response) in the order they were added.
C28_HistoryReturnsMessages ==
    (/\ chat.last.kind = "history"
     /\ \E k \in DOMAIN chat.asked :
           chat.asked[k].conversation_id = chat.last.conversation_id) =>
        chat.last.messages
            = MessagesAsked(chat.last.conversation_id, Len(chat.asked))

\* the topic map the user's events give (C23)
TopicMapOfEvents(u, map) ==
    \A t \in Topics :
        IF TopicEvents(u, t) = {} THEN t \notin DOMAIN map
        ELSE t \in DOMAIN map /\ map[t] = SumClaimed(TopicEvents(u, t))

\* C29: a call of get_personalized_feed whose profile build fails returns the
\* error profile and leaves the cache as it was, nothing stored for the user;
\* a call for a user without a cached profile whose build succeeds (the call
\* after a failure included) stores the profile built from the user's events
\* and returns it.
C29_FailedBuildCachesNothing ==
    [][(feed.outcome = "idle" /\ feed'.outcome # "idle") =>
          /\ ~feed'.profile.cached =>
                /\ "profile" \in feed'.faults
                /\ user_profiles' = user_profiles
                /\ ~user_profiles'[feed'.user].cached
          /\ (~user_profiles[feed'.user].cached /\ "profile" \notin feed'.faults) =>
                /\ user_profiles'[feed'.user].cached
                /\ feed'.profile = user_profiles'[feed'.user]
                /\ TopicMapOfEvents(feed'.user, feed'.profile.topic_preferences)]_vars

\* a call whose event query failed returned, for a user who has an event on a
\* stored article, and no profile is cached for that user
C29_Witness ==
    /\ feed.outcome = "returned"
    /\ "profile" \in feed.faults
    /\ ~feed.profile.cached
    /\ ~user_profiles[feed.user].cached
    /\ WindowEvents(feed.user) # {}

\* C30 (as claimed): no list returned by get_personalized_feed for a user, the
\* fallback lists included, holds an article the user has a 'read' or
\* 'bookmark' event on.
C30_ConsumedNeverReturned ==
    feed.outcome = "returned" =>
        \A i \in DOMAIN feed.result : ~HasConsumed(feed.user, feed.result[i].id)

=============================================================================
